---- MODULE Spec2Model ----
(***************************************************************************)
(* Model of the wallets-api backend (src/main.py, src/schemas.py): the     *)
(* three collections of the document store, the HTTP handlers list_styles, *)
(* upload_art, checkout, root, get_schema_info and test_database, and the  *)
(* pydantic models the handlers build.                                     *)
(*                                                                         *)
(* Numbers.  Python floats are modelled as a pair [m, e]: m is the value   *)
(* in thousandths (mills) and e in {-1, 0, 1} is the side on which the     *)
(* double lies of the decimal m/1000 (0: the double is exactly m/1000,     *)
(* which needs m/1000 to be a multiple of 1/8).  An operation whose result *)
(* is not exact yields every side the rounding of the operation may leave  *)
(* it on, so the float operators are set valued; the representation error  *)
(* only decides comparisons and round() at an exact tie.  round(x, 2)      *)
(* yields the double nearest to a whole number of cents, modelled as that  *)
(* number of cents.                                                        *)
(***************************************************************************)
EXTENDS Integers, Sequences, FiniteSets, TLC

VARIABLES walletstyle, upload, order, lsPc, lsIdx, call

vars == <<walletstyle, upload, order, lsPc, lsIdx, call>>

(* ---------------------------------------------------------------- bounds *)

\* documents the checkout and upload handlers may add to the store
MaxOrders == 2
MaxUploads == 1

\* concurrent requests to GET /api/styles
Clients == {1, 2}

None == "None"

(* ---------------------------------------------------------------- floats *)

Flt(m, e) == [m |-> m, e |-> e]

Zero == Flt(0, 0)

\* the sides an inexact result near m/1000 may lie on
ErrSigns(m) == IF m % 125 = 0 THEN {-1, 0, 1} ELSE {-1, 1}

Sgn(q) == IF q > 0 THEN 1 ELSE IF q < 0 THEN -1 ELSE 0

Abs(q) == IF q < 0 THEN -q ELSE q

IsPow2(n) == n \in {1, 2, 4, 8, 16}

\* float * int: exact for an exact operand and for a power of two
FMul(x, q) ==
    IF q = 0 THEN {Zero}
    ELSE IF x.e = 0 \/ IsPow2(Abs(q)) THEN {Flt(x.m * q, x.e * Sgn(q))}
    ELSE {Flt(x.m * q, s) : s \in ErrSigns(x.m * q)}

\* float + float: exact for exact operands and for a zero operand
FAdd(x, y) ==
    IF x = Zero THEN {y}
    ELSE IF y = Zero THEN {x}
    ELSE IF x.e = 0 /\ y.e = 0 THEN {Flt(x.m + y.m, 0)}
    ELSE {Flt(x.m + y.m, s) : s \in ErrSigns(x.m + y.m)}

FLess(x, y) == x.m < y.m \/ (x.m = y.m /\ x.e < y.e)

\* round(x, 2), in cents: to nearest, an exact tie to even
Round2(x) ==
    LET q == x.m \div 10
        r == x.m % 10
    IN  IF r < 5 THEN q
        ELSE IF r > 5 THEN q + 1
        ELSE IF x.e > 0 THEN q + 1
        ELSE IF x.e < 0 THEN q
        ELSE IF q % 2 = 0 THEN q ELSE q + 1

\* the doubles a stored amount of c cents may be
FromCents(c) == {Flt(10 * c, s) : s \in (IF c % 25 = 0 THEN {0} ELSE {-1, 1})}

\* an exact float that is a whole number of cents, in cents
ToCents(x) == x.m \div 10

(* ------------------------------------------------------- identifiers *)

\* the ObjectId the store gives the n-th document of a collection
Oid(coll, n) == <<coll, n>>

\* str(ObjectId): the 24-character hexadecimal text of an ObjectId
ObjectIdStr(oid) == <<"hex", oid>>

\* a text that is no ObjectId
BadIdStr == <<"raw", <<"abc", 0>>>>

\* a well-formed id no catalog document has
UnknownIdStr == ObjectIdStr(Oid("unknown", 1))

\* no id text: an absent optional id, an empty response field
NoId == <<"none", <<"none", 0>>>>

\* ObjectId(text) raises InvalidId unless the text is 24 hexadecimal characters
ObjectIdValid(s) == s[1] = "hex"

ObjectId(s) == s[2]

(* ------------------------------------------------------------ schemas *)

WalletStyle(title, description, price, images, finishes) ==
    [title |-> title, description |-> description, price |-> price,
     images |-> images, finishes |-> finishes, in_stock |-> TRUE]

UploadSchema(filename, content_type, size, data_b64) ==
    [filename |-> filename, content_type |-> content_type, size |-> size,
     data_b64 |-> data_b64]

\* CartItem keeps its five declared fields of a dict and ignores the others
CartItem(d) ==
    [product_id |-> d.product_id, quantity |-> d.quantity, finish |-> d.finish,
     engraving_text |-> d.engraving_text, upload_id |-> d.upload_id]

\* faulty variant of CartItemValid: the quantity declared without its minimum
CartItemValidNoMinimum(d) == d.quantity \in Int

\* CartItem.quantity: Field(1, ge=1)
CartItemValid(d) == d.quantity >= 1

\* faulty variant of OrderValid: an order must hold a line item
OrderValidNonEmpty(items, subtotal, shipping, total) ==
    /\ Len(items) >= 1
    /\ \A i \in 1..Len(items) : items[i].quantity >= 1
    /\ subtotal >= 0
    /\ shipping >= 0
    /\ total >= 0

\* Order.subtotal, shipping, total: Field(..., ge=0); Order.items: List[CartItem]
OrderValid(items, subtotal, shipping, total) ==
    /\ \A i \in 1..Len(items) : CartItemValid(items[i])
    /\ subtotal >= 0
    /\ shipping >= 0
    /\ total >= 0

\* faulty variant of Order: the mocked payment recorded as taken
OrderCompleted(items, customer, subtotal, shipping, total, status) ==
    [items |-> [i \in 1..Len(items) |-> CartItem(items[i])],
     customer |-> customer, subtotal |-> subtotal, shipping |-> shipping,
     total |-> total, status |-> "completed", notes |-> None]

Order(items, customer, subtotal, shipping, total, status) ==
    [items |-> [i \in 1..Len(items) |-> CartItem(items[i])],
     customer |-> customer, subtotal |-> subtotal, shipping |-> shipping,
     total |-> total, status |-> status, notes |-> None]

(* -------------------------------------------------------------- store *)

\* insert_one: the document with the store's fresh _id, appended
InsertOne(coll, name, doc) ==
    Append(coll, doc @@ [_id |-> Oid(name, Len(coll) + 1)])

\* the id text create_document returns
CreatedId(coll, name) == ObjectIdStr(Oid(name, Len(coll) + 1))

get_documents(coll) == coll

Found(coll, oid) == \E i \in 1..Len(coll) : coll[i]._id = oid

\* find_one({"_id": oid}): the first document with that _id
FindOne(coll, oid) ==
    coll[CHOOSE i \in 1..Len(coll) :
            /\ coll[i]._id = oid
            /\ \A j \in 1..(i - 1) : coll[j]._id # oid]

(* ------------------------------------------------------- style catalog *)

seeds ==
    << WalletStyle("Carbon Fiber Slim Wallet",
                   "Durable carbon fiber plates with RFID blocking.",
                   Flt(59000, 0), <<"photo-1585386959984-a4155223162d">>,
                   <<"Matte Black", "Gunmetal", "Silver">>),
       WalletStyle("Aluminum Slim Wallet",
                   "Lightweight anodized aluminum construction.",
                   Flt(49000, 0), <<"photo-1512496015851-a90fb38ba796">>,
                   <<"Matte Black", "Navy", "Forest">>),
       WalletStyle("Titanium Slim Wallet",
                   "Premium titanium with sleek edges.",
                   Flt(89000, 0), <<"photo-1562184552-1e86cae0b2d9">>,
                   <<"Raw", "Stonewash", "Black Ti">>) >>

\* faulty variants of NeedsSeed: seeding on every request; seeding behind a lock the
\* seeding requests hold; seeding whenever fewer than three styles are stored
NeedsSeedAlways(styles) == Len(styles) >= 0

NeedsSeedUnlessSeeding(styles) ==
    styles = <<>> /\ \A c \in Clients : lsPc[c] # "seed"

NeedsSeedBelowThree(styles) == Len(styles) < 3

\* if not styles
NeedsSeed(styles) == styles = <<>>

\* s["id"] = str(s.pop("_id"))
Project(s) ==
    [k \in (DOMAIN s \ {"_id"}) \cup {"id"} |->
        IF k = "id" THEN ObjectIdStr(s._id) ELSE s[k]]

ProjectAll(styles) == [i \in 1..Len(styles) |-> Project(styles[i])]

(* -------------------------------------------------------------- upload *)

\* base64.b64encode: the text as alphabet indices 0..63, 64 for the padding "="
RECURSIVE b64encode(_)
b64encode(content) ==
    IF Len(content) = 0 THEN <<>>
    ELSE IF Len(content) = 1 THEN
        << content[1] \div 4, (content[1] % 4) * 16, 64, 64 >>
    ELSE IF Len(content) = 2 THEN
        << content[1] \div 4,
           (content[1] % 4) * 16 + content[2] \div 16,
           (content[2] % 16) * 4, 64 >>
    ELSE
        << content[1] \div 4,
           (content[1] % 4) * 16 + content[2] \div 16,
           (content[2] % 16) * 4 + content[3] \div 64,
           content[3] % 64 >> \o b64encode(SubSeq(content, 4, Len(content)))

\* file.content_type or "application/octet-stream"
ContentTypeOr(content_type) ==
    IF content_type = None THEN "application/octet-stream" ELSE content_type

(* ------------------------------------------------------------ checkout *)

\* faulty variant of FirstBad: the loop reporting the last failing position
LastBad(items, catalog) ==
    LET bad == {i \in 1..Len(items) :
                   \/ ~ObjectIdValid(items[i].product_id)
                   \/ ~Found(catalog, ObjectId(items[i].product_id))}
    IN  IF bad = {} THEN 0 ELSE CHOOSE i \in bad : \A j \in bad : i >= j

\* the first cart position whose ObjectId() or find_one fails; 0 when none does
FirstBad(items, catalog) ==
    LET bad == {i \in 1..Len(items) :
                   \/ ~ObjectIdValid(items[i].product_id)
                   \/ ~Found(catalog, ObjectId(items[i].product_id))}
    IN  IF bad = {} THEN 0 ELSE CHOOSE i \in bad : \A j \in bad : i <= j

Prod(item, catalog) == FindOne(catalog, ObjectId(item.product_id))

\* the dicts appended to items_full
ItemFull(item, catalog) ==
    [product_id |-> item.product_id,
     title |-> Prod(item, catalog).title,
     price_each |-> Prod(item, catalog).price,
     quantity |-> item.quantity,
     finish |-> item.finish,
     engraving_text |-> item.engraving_text,
     upload_id |-> item.upload_id]

ItemsFull(items, catalog) ==
    [i \in 1..Len(items) |-> ItemFull(items[i], catalog)]

\* the values subtotal may hold after the first k items
RECURSIVE Subtotals(_, _, _)
Subtotals(items, catalog, k) ==
    IF k = 0 THEN {Zero}
    ELSE UNION { UNION { FAdd(s, price) :
                           price \in FMul(Prod(items[k], catalog).price,
                                          items[k].quantity) } :
                   s \in Subtotals(items, catalog, k - 1) }

\* shipping = 5.0 if subtotal < 75 else 0.0
Shipping(subtotal) ==
    IF FLess(subtotal, Flt(75000, 0)) THEN Flt(5000, 0) ELSE Zero

\* faulty variant of Total: the rounded subtotal plus shipping
TotalOfRoundedSubtotal(subtotal, shipping, sum) == Round2(subtotal) + ToCents(shipping)

\* total = round(subtotal + shipping, 2); sum is subtotal + shipping as the
\* float addition left it
Total(subtotal, shipping, sum) == Round2(sum)

(* ---------------------------------------------------------- responses *)

\* the last request served and, for checkout, the values its locals held
Call(op, code) ==
    [op |-> op, code |-> code, stage |-> "", items |-> <<>>,
     detail |-> <<"", NoId>>, id |-> NoId, status |-> "", amount |-> 0,
     raw |-> Zero, sum |-> Zero, styles |-> <<>>, info |-> <<>>,
     collections |-> <<>>]

(* -------------------------------------------------------------- inputs *)

Customers ==
    { [name |-> "Ada", email |-> "ada@example.com", address_line1 |-> "1 Main St",
       address_line2 |-> None, city |-> "Leeds", state |-> "WY",
       postal_code |-> "LS1", country |-> "UK"] }

CartItemIn(product_id, quantity, finish, engraving_text, upload_id) ==
    [product_id |-> product_id, quantity |-> quantity, finish |-> finish,
     engraving_text |-> engraving_text, upload_id |-> upload_id]

StyleId(n) == ObjectIdStr(Oid("walletstyle", n))

\* one of the first style, two of the second with an engraving
ItemA == CartItemIn(StyleId(1), 1, None, None, NoId)
ItemB == CartItemIn(StyleId(2), 2, "Navy", "JD", ObjectIdStr(Oid("upload", 1)))
\* a quantity of zero, a negative quantity
ItemZero == CartItemIn(StyleId(1), 0, None, None, NoId)
ItemNeg == CartItemIn(StyleId(2), -1, "Navy", None, NoId)
\* a well-formed id of no style, a text that is no id
ItemUnknown == CartItemIn(UnknownIdStr, 1, None, None, NoId)
ItemBad == CartItemIn(BadIdStr, 1, None, None, NoId)

Carts ==
    { <<>>, <<ItemA>>, <<ItemB>>, <<ItemA, ItemB>>,
      <<ItemZero>>, <<ItemA, ItemNeg>>,
      <<ItemUnknown>>, <<ItemA, ItemUnknown>>, <<ItemBad, ItemUnknown>>,
      <<ItemA, ItemBad>>, <<ItemUnknown, ItemBad>> }

Files ==
    { [filename |-> "art.png", content_type |-> "image/png",
       content |-> <<137, 80, 78, 71>>],
      [filename |-> "logo", content_type |-> None, content |-> <<255>>] }

\* catalogs an administrator wrote to the store before the API ran
AdminStyle(n, title, price) ==
    WalletStyle(title, None, price, <<>>, <<"Matte Black", "Gunmetal", "Silver">>)
        @@ [_id |-> Oid("walletstyle", n)]

\* prices 0.005 (a double above 0.005), 74.996 (a double below it) and 37.5
AdminCatalogs ==
    { << AdminStyle(1, "Sticker", Flt(5, 1)),
         AdminStyle(2, "Brass Wallet", Flt(37500, 0)) >>,
      << AdminStyle(1, "Gold Wallet", Flt(74996, -1)),
         AdminStyle(2, "Brass Wallet", Flt(37500, 0)) >> }

(* ---------------------------------------------------------------- state *)

Init ==
    /\ walletstyle \in {<<>>} \cup AdminCatalogs
    /\ upload = <<>>
    /\ order = <<>>
    /\ lsPc = [c \in Clients |-> "idle"]
    /\ lsIdx = [c \in Clients |-> 0]
    /\ call = Call("", 0)

(* ------------------------------------------------------------- GET / *)

root ==
    /\ call' = [Call("root", 200) EXCEPT !.info = <<"ok", "wallets-api">>]
    /\ UNCHANGED <<walletstyle, upload, order, lsPc, lsIdx>>

(* ---------------------------------------------------- GET /api/styles *)

\* the catalog after create_document of the first k seeds
RECURSIVE Seeded(_, _)
Seeded(catalog, k) ==
    IF k = 0 THEN catalog
    ELSE InsertOne(Seeded(catalog, k - 1), "walletstyle", seeds[k])

ListOk(styles) == [Call("list_styles", 200) EXCEPT !.styles = ProjectAll(styles)]

\* except Exception as e: status 500
ListError == [Call("list_styles", 500) EXCEPT !.detail = <<"store error", NoId>>]

\* the handler run alone, no store call failing
list_styles ==
    /\ \A c \in Clients : lsPc[c] = "idle"
    /\ LET styles == get_documents(walletstyle)
       IN  IF NeedsSeed(styles)
           THEN /\ walletstyle' = Seeded(walletstyle, Len(seeds))
                /\ call' = ListOk(get_documents(walletstyle'))
           ELSE /\ call' = ListOk(styles)
                /\ UNCHANGED walletstyle
    /\ UNCHANGED <<upload, order, lsPc, lsIdx>>

\* the handler run alone, its store call number failAt raising: 1 the first
\* get_documents, 2..4 a create_document, 5 the second get_documents
list_styles_failing(failAt) ==
    /\ \A c \in Clients : lsPc[c] = "idle"
    /\ failAt = 1 \/ NeedsSeed(get_documents(walletstyle))
    /\ walletstyle' = IF failAt = 1 THEN walletstyle
                      ELSE Seeded(walletstyle, IF failAt = 5 THEN 3 ELSE failAt - 2)
    /\ call' = ListError
    /\ UNCHANGED <<upload, order, lsPc, lsIdx>>

\* the handler step by step, one store call a step, for concurrent requests:
\* styles = get_documents("walletstyle"), and the return when none is to seed
ListStylesRead(c) ==
    /\ lsPc[c] = "idle"
    /\ LET styles == get_documents(walletstyle)
       IN  IF NeedsSeed(styles)
           THEN /\ lsPc' = [lsPc EXCEPT ![c] = "seed"]
                /\ lsIdx' = [lsIdx EXCEPT ![c] = 0]
                /\ UNCHANGED call
           ELSE /\ call' = ListOk(styles)
                /\ UNCHANGED <<lsPc, lsIdx>>
    /\ UNCHANGED <<walletstyle, upload, order>>

\* one create_document("walletstyle", s) of the loop over seeds
ListStylesSeed(c) ==
    /\ lsPc[c] = "seed"
    /\ walletstyle' = InsertOne(walletstyle, "walletstyle", seeds[lsIdx[c] + 1])
    /\ IF lsIdx[c] + 1 = Len(seeds)
       THEN /\ lsPc' = [lsPc EXCEPT ![c] = "reread"]
            /\ lsIdx' = [lsIdx EXCEPT ![c] = 0]
       ELSE /\ lsIdx' = [lsIdx EXCEPT ![c] = lsIdx[c] + 1]
            /\ UNCHANGED lsPc
    /\ UNCHANGED <<upload, order, call>>

\* styles = get_documents("walletstyle") after the seeding, and the return
ListStylesReread(c) ==
    /\ lsPc[c] = "reread"
    /\ call' = ListOk(get_documents(walletstyle))
    /\ lsPc' = [lsPc EXCEPT ![c] = "idle"]
    /\ UNCHANGED <<walletstyle, upload, order, lsIdx>>

\* the store call a request is at raises
ListStylesError(c) ==
    /\ call' = ListError
    /\ lsPc' = [lsPc EXCEPT ![c] = "idle"]
    /\ lsIdx' = [lsIdx EXCEPT ![c] = 0]
    /\ UNCHANGED <<walletstyle, upload, order>>

(* ---------------------------------------------------- POST /api/upload *)

upload_art(file, storeOk) ==
    /\ IF storeOk
       THEN /\ Len(upload) < MaxUploads
            /\ upload' = InsertOne(upload, "upload",
                             UploadSchema(file.filename,
                                          ContentTypeOr(file.content_type),
                                          Len(file.content),
                                          b64encode(file.content)))
            /\ call' = [Call("upload", 200) EXCEPT !.id = CreatedId(upload, "upload")]
       ELSE /\ call' = [Call("upload", 400) EXCEPT !.detail = <<"store error", NoId>>]
            /\ UNCHANGED upload
    /\ UNCHANGED <<walletstyle, order, lsPc, lsIdx>>

(* -------------------------------------------------- POST /api/checkout *)

checkout(items, customer, storeOk) ==
    LET bad == FirstBad(items, walletstyle)
        req == [Call("checkout", 400) EXCEPT !.items = items]
    IN
    /\ UNCHANGED <<walletstyle, upload, lsPc, lsIdx>>
    /\ IF bad # 0
       THEN \* the loop raised at item bad
            /\ storeOk
            /\ call' = IF ObjectIdValid(items[bad].product_id)
                       THEN [req EXCEPT !.stage = "lookup", !.code = 404,
                                !.detail = <<"Product not found: ",
                                             items[bad].product_id>>]
                       ELSE [req EXCEPT !.stage = "lookup",
                                !.detail = <<"is not a valid ObjectId",
                                             items[bad].product_id>>]
            /\ UNCHANGED order
       ELSE \E subtotal \in Subtotals(items, walletstyle, Len(items)) :
            \E sum \in FAdd(subtotal, Shipping(subtotal)) :
            LET items_full == ItemsFull(items, walletstyle)
                shipping == Shipping(subtotal)
                total == Total(subtotal, shipping, sum)
                ran == [req EXCEPT !.raw = subtotal, !.sum = sum]
            IN  IF ~OrderValid(items_full, Round2(subtotal), ToCents(shipping), total)
                THEN \* Order(...) raised a validation error
                     /\ storeOk
                     /\ call' = [ran EXCEPT !.stage = "validate",
                                    !.detail = <<"validation error", NoId>>]
                     /\ UNCHANGED order
                ELSE IF ~storeOk
                THEN \* create_document raised
                     /\ call' = [ran EXCEPT !.stage = "persist",
                                    !.detail = <<"store error", NoId>>]
                     /\ UNCHANGED order
                ELSE /\ Len(order) < MaxOrders
                     /\ order' = InsertOne(order, "order",
                                     Order(items_full, customer, Round2(subtotal),
                                           ToCents(shipping), total, "pending"))
                     /\ call' = [ran EXCEPT !.stage = "done", !.code = 200,
                                    !.id = CreatedId(order, "order"),
                                    !.status = "pending", !.amount = total]

(* ---------------------------------------------------- GET /api/schema *)

get_schema_info ==
    /\ call' = [Call("schema", 200) EXCEPT
                   !.collections = <<"walletstyle", "upload", "order">>]
    /\ UNCHANGED <<walletstyle, upload, order, lsPc, lsIdx>>

(* ----------------------------------------------------------- GET /test *)

\* db.list_collection_names(): the collections that hold a document
list_collection_names ==
    (IF walletstyle # <<>> THEN <<"walletstyle">> ELSE <<>>)
    \o (IF upload # <<>> THEN <<"upload">> ELSE <<>>)
    \o (IF order # <<>> THEN <<"order">> ELSE <<>>)

SetMark(present) == IF present THEN "Set" ELSE "Not Set"

test_database(dbUp, envSet, listOk) ==
    /\ call' = IF dbUp
               THEN [Call("test", 200) EXCEPT
                        !.info = <<"Running", "Connected", SetMark(envSet),
                                   SetMark(envSet), "Not Connected">>,
                        !.collections = IF listOk THEN list_collection_names
                                        ELSE <<>>]
               ELSE [Call("test", 200) EXCEPT
                        !.info = <<"Running", "Not Available", None, None,
                                   "Not Connected">>]
    /\ UNCHANGED <<walletstyle, upload, order, lsPc, lsIdx>>

(* ----------------------------------------------------------------- specs *)

\* requests served one at a time, no store call of list_styles failing
NextSequential ==
    \/ root
    \/ list_styles
    \/ \E file \in Files, storeOk \in BOOLEAN : upload_art(file, storeOk)
    \/ \E items \in Carts, customer \in Customers, storeOk \in BOOLEAN :
          checkout(items, customer, storeOk)
    \/ get_schema_info
    \/ \E dbUp \in BOOLEAN, listOk \in BOOLEAN : test_database(dbUp, listOk, listOk)

SpecSequential == Init /\ [][NextSequential]_vars

\* requests served one at a time, store calls of list_styles failing or not
Next ==
    \/ NextSequential
    \/ \E failAt \in 1..5 : list_styles_failing(failAt)

Spec == Init /\ [][Next]_vars

\* concurrent requests to GET /api/styles, interleaved at their store calls
NextConcurrent ==
    \/ \E c \in Clients : ListStylesRead(c)
    \/ \E c \in Clients : ListStylesSeed(c)
    \/ \E c \in Clients : ListStylesReread(c)
    \/ \E c \in Clients : ListStylesError(c)

SpecConcurrent == Init /\ [][NextConcurrent]_vars

(* ---------------------------------------------------------------- claims *)

\* a step in which a checkout request was served
CheckoutServed == call'.op = "checkout" /\ call' # call

\* item's product id is the id of no document of the catalog
Absent(item, catalog) ==
    \A i \in 1..Len(catalog) : ObjectIdStr(catalog[i]._id) # item.product_id

\* cart position i holds the first absent product id
FirstAbsentAt(items, catalog, i) ==
    /\ i \in 1..Len(items)
    /\ Absent(items[i], catalog)
    /\ \A j \in 1..(i - 1) : ~Absent(items[j], catalog)

\* the order document whose id text is id
OrderOf(id) == order[CHOOSE i \in 1..Len(order) : ObjectIdStr(order[i]._id) = id]

\* C1 (as amended): a checkout whose cart holds a product id absent from the
\* catalog leaves the order collection as it was and fails naming the first
\* absent id in cart order: with 404 "Product not found" when that id is a
\* well-formed ObjectId text, with 400 and the invalid-ObjectId message when
\* it is not.
C1_AbortNamesFirstAbsent ==
    [][ \A i \in 1..Len(call'.items) :
          (CheckoutServed /\ FirstAbsentAt(call'.items, walletstyle, i)) =>
             /\ order' = order
             /\ call'.detail[2] = call'.items[i].product_id
             /\ IF ObjectIdValid(call'.items[i].product_id)
                THEN call'.code = 404 /\ call'.detail[1] = "Product not found: "
                ELSE call'.code = 400 /\ call'.detail[1] = "is not a valid ObjectId"
      ]_vars

\* C1 witness: a cart whose first item resolved and whose second did not was
\* refused with 404 while an earlier order is on record.
C1_Witness ==
    /\ call.op = "checkout"
    /\ call.code = 404
    /\ FirstAbsentAt(call.items, walletstyle, 2)
    /\ Len(order) >= 1

\* C1 (original): a checkout whose cart holds an absent product id fails with
\* the not-found error naming the first absent id, and writes no order.
C1_AlwaysNotFound ==
    [][ \A i \in 1..Len(call'.items) :
          (CheckoutServed /\ FirstAbsentAt(call'.items, walletstyle, i)) =>
             /\ order' = order
             /\ call'.code = 404
             /\ call'.detail = <<"Product not found: ", call'.items[i].product_id>>
      ]_vars

\* the shipping, in cents, of a raw subtotal: 5.0 iff it is below 75.0
ShippingCents(raw) ==
    IF raw.m < 75000 \/ (raw.m = 75000 /\ raw.e < 0) THEN 500 ELSE 0

\* C2 (as amended): the order a successful checkout persisted stores the raw
\* subtotal rounded to cents, shipping 5.0 iff the raw subtotal is below 75.0
\* and 0.0 otherwise, and total == round(raw subtotal + shipping, 2), the
\* rounding of the unrounded sum; the returned amount is the stored total.
C2_TotalRoundsRawSum ==
    (call.op = "checkout" /\ call.code = 200) =>
        LET o == OrderOf(call.id)
        IN  /\ o.subtotal = Round2(call.raw)
            /\ o.shipping = ShippingCents(call.raw)
            /\ call.sum \in FAdd(call.raw, Flt(10 * ShippingCents(call.raw), 0))
            /\ o.total = Round2(call.sum)
            /\ call.amount = o.total

\* C2 witness: a cart whose raw subtotal is exactly 75.0 was persisted with
\* shipping 0.0.
C2_Witness ==
    /\ call.op = "checkout"
    /\ call.code = 200
    /\ call.raw = Flt(75000, 0)
    /\ OrderOf(call.id).shipping = 0
    /\ OrderOf(call.id).total = 7500

\* C2 (original): total == round(subtotal_rounded + shipping, 2) with the
\* stored, rounded subtotal; shipping 5.0 iff the raw subtotal is below 75.0;
\* the returned amount is the stored total.
C2_TotalRoundsStoredSubtotal ==
    (call.op = "checkout" /\ call.code = 200) =>
        LET o == OrderOf(call.id)
            sums == UNION { FAdd(f, Flt(10 * o.shipping, 0)) : f \in FromCents(o.subtotal) }
        IN  /\ o.subtotal = Round2(call.raw)
            /\ o.shipping = ShippingCents(call.raw)
            /\ \A t \in sums : o.total = Round2(t)
            /\ call.amount = o.total

\* C3: every stored order has shipping == 5.0 if its stored subtotal < 75,
\* otherwise shipping == 0.0.
C3_ShippingOfStoredSubtotal ==
    \A i \in 1..Len(order) :
        order[i].shipping = IF order[i].subtotal < 7500 THEN 500 ELSE 0

\* C4: every line item of every stored order carries the product id, the
\* title and the unit price of the catalog document it was resolved to, and
\* the cart's quantity, finish, engraving text and upload reference.
C4_LineItemsAreSnapshots ==
    \A i \in 1..Len(order) : \A k \in 1..Len(order[i].items) :
        LET it == order[i].items[k]
        IN  /\ {"product_id", "title", "price_each", "quantity", "finish",
                "engraving_text", "upload_id"} \subseteq DOMAIN it
            /\ \E j \in 1..Len(walletstyle) :
                  /\ ObjectIdStr(walletstyle[j]._id) = it.product_id
                  /\ walletstyle[j].title = it.title
                  /\ walletstyle[j].price = it.price_each

\* some item of the cart has a quantity of zero or less
HasNonPositive(items) == \E k \in 1..Len(items) : items[k].quantity <= 0

AllPresent(items, catalog) == \A k \in 1..Len(items) : ~Absent(items[k], catalog)

\* C5 (as amended): a checkout whose product ids all exist and whose cart holds
\* a quantity <= 0 meets no quantity check in the pricing loop, which prices the
\* line as unit_price * quantity, but building the Order validates every line
\* as a CartItem (quantity >= 1): the call fails with a 400 validation error
\* and persists no order.
C5_NonPositiveQuantityFailsValidation ==
    [][ (CheckoutServed /\ AllPresent(call'.items, walletstyle)
                        /\ HasNonPositive(call'.items)) =>
           /\ call'.code = 400
           /\ call'.stage = "validate"
           /\ call'.raw \in Subtotals(call'.items, walletstyle, Len(call'.items))
           /\ order' = order
      ]_vars

\* C5 witness: a cart of existing products with a quantity <= 0 was priced and
\* then refused at the Order validation.
C5_Witness ==
    /\ call.op = "checkout"
    /\ call.stage = "validate"
    /\ call.code = 400
    /\ HasNonPositive(call.items)
    /\ \E k \in 1..Len(call.items) : call.items[k].quantity >= 1
    /\ call.raw.m < 0

\* C5 (original): a checkout whose product ids all exist and whose cart holds a
\* quantity <= 0 completes: it persists an order and returns its id.
C5_NonPositiveQuantityCompletes ==
    [][ (CheckoutServed /\ AllPresent(call'.items, walletstyle)
                        /\ HasNonPositive(call'.items)
                        /\ call'.stage # "persist") =>
           /\ call'.code = 200
           /\ Len(order') = Len(order) + 1
      ]_vars

\* the catalog holds exactly the three default styles, in seeding order
IsSeedCatalog(catalog) ==
    /\ Len(catalog) = 3
    /\ \A i \in 1..3 :
          /\ catalog[i].title = seeds[i].title
          /\ catalog[i].finishes = seeds[i].finishes
          /\ catalog[i]._id = Oid("walletstyle", i)
    /\ <<catalog[1].price, catalog[2].price, catalog[3].price>>
          = <<Flt(59000, 0), Flt(49000, 0), Flt(89000, 0)>>

\* returned is the catalog with each _id replaced by its text under "id"
IsProjection(returned, catalog) ==
    /\ Len(returned) = Len(catalog)
    /\ \A i \in 1..Len(returned) :
          /\ "id" \in DOMAIN returned[i]
          /\ "_id" \notin DOMAIN returned[i]
          /\ returned[i].id = <<"hex", catalog[i]._id>>
          /\ returned[i].title = catalog[i].title
          /\ returned[i].price = catalog[i].price

\* C6: with requests served one at a time and no store call failing, the
\* catalog is empty, or the catalog it started as, or exactly the three default
\* styles (prices 59.0, 49.0, 89.0): list_styles seeds an empty catalog once and
\* writes nothing to a non-empty one; and what list_styles returned is the
\* catalog, at least one style, each with a string id and no _id field.
C6_SeedsOnce ==
    /\ \/ walletstyle = <<>>
       \/ walletstyle \in AdminCatalogs
       \/ IsSeedCatalog(walletstyle)
    /\ call.op = "list_styles" =>
          /\ call.code = 200
          /\ walletstyle # <<>>
          /\ IsProjection(call.styles, walletstyle)

\* C6 witness: list_styles ran on the empty catalog and returned the three
\* default styles.
C6_Witness ==
    /\ call.op = "list_styles"
    /\ Len(call.styles) = 3
    /\ IsSeedCatalog(walletstyle)
    /\ call.styles[3].title = "Titanium Slim Wallet"

\* the number of catalog documents with a title
Copies(title) == Cardinality({i \in 1..Len(walletstyle) : walletstyle[i].title = title})

\* C7: nothing but the emptiness test guards the seeding of concurrent
\* requests: a request that reads the catalog while it is empty goes on to seed
\* whatever the other requests are doing, and a request that is seeding writes
\* its next default style whatever the catalog holds by then; so the catalog
\* may hold up to one copy of each default style per request.
C7_OnlyEmptinessGuardsSeeding ==
    /\ \A c \in Clients :
          /\ (lsPc[c] = "idle" /\ walletstyle = <<>>) =>
                ENABLED (ListStylesRead(c) /\ lsPc'[c] = "seed")
          /\ lsPc[c] = "seed" =>
                ENABLED (ListStylesSeed(c) /\ Len(walletstyle') = Len(walletstyle) + 1)
    /\ \A i \in 1..Len(seeds) : Copies(seeds[i].title) <= Cardinality(Clients)

\* C7 witness: both requests read the catalog as empty and both seeded: six
\* documents, each default title twice.
C7_Witness ==
    /\ Len(walletstyle) = 6
    /\ \A i \in 1..Len(seeds) : Copies(seeds[i].title) = 2
    /\ \A c \in Clients : lsPc[c] = "idle"
    /\ call.op = "list_styles" /\ call.code = 200 /\ Len(call.styles) = 6

\* C8: every step leaves the orders already written as they were; the order
\* collection grows only by one document a step, only in a successful
\* checkout, whose new order has status "pending" and an id no earlier order
\* has and the response names; every successful checkout adds such a document
\* and a failed checkout adds none.
C8_OrdersAppendOnly ==
    [][ /\ Len(order') \in {Len(order), Len(order) + 1}
        /\ SubSeq(order', 1, Len(order)) = order
        /\ Len(order') = Len(order) + 1 =>
              /\ call'.op = "checkout" /\ call'.code = 200
              /\ call'.status = "pending"
              /\ order'[Len(order')].status = "pending"
              /\ call'.id = <<"hex", order'[Len(order')]._id>>
              /\ \A i \in 1..Len(order) : order[i]._id # order'[Len(order')]._id
        /\ (CheckoutServed /\ call'.code = 200) => Len(order') = Len(order) + 1
        /\ (call'.op = "checkout" /\ call'.code # 200) => order' = order
      ]_vars

\* C8 witness: two successful checkouts of the same cart left two orders that
\* differ in their id alone.
C8_Witness ==
    /\ Len(order) = 2
    /\ order[1]._id # order[2]._id
    /\ order[1].items = order[2].items
    /\ order[1].items # <<>>
    /\ order[1].total = order[2].total
    /\ order[1].status = "pending" /\ order[2].status = "pending"

\* the catalog holds the first k default styles only, 0 < k < 3
IsPartialSeed(catalog) ==
    /\ Len(catalog) \in {1, 2}
    /\ \A i \in 1..Len(catalog) : catalog[i].title = seeds[i].title

\* C9: a list_styles whose store write fails after k of the three (0 < k < 3)
\* answers with the server error and leaves the k styles in the catalog; from
\* then on no request changes the catalog, and a list_styles that succeeds
\* returns those k styles only.
C9_PartialSeedStays ==
    [][ /\ (walletstyle = <<>> /\ Len(walletstyle') \in {1, 2}) =>
              /\ IsPartialSeed(walletstyle')
              /\ call'.op = "list_styles" /\ call'.code = 500
              /\ call'.styles = <<>>
        /\ IsPartialSeed(walletstyle) =>
              /\ walletstyle' = walletstyle
              /\ (call'.op = "list_styles" /\ call'.code = 200) =>
                    IsProjection(call'.styles, walletstyle)
      ]_vars

\* C9 witness: after a seeding that failed at its second or third write, a
\* later list_styles returned the styles written before the failure and no more.
C9_Witness ==
    /\ IsPartialSeed(walletstyle)
    /\ call.op = "list_styles"
    /\ call.code = 200
    /\ Len(call.styles) = Len(walletstyle)

\* C10: a checkout of an empty cart whose store write does not fail is served
\* with status "pending" and amount 5.0, and the order it persisted has no line
\* items, subtotal 0.0, shipping 5.0 and total 5.0.
C10_EmptyCartOrder ==
    (call.op = "checkout" /\ call.items = <<>> /\ call.stage # "persist") =>
        /\ call.code = 200
        /\ call.stage = "done"
        /\ call.status = "pending"
        /\ call.amount = 500
        /\ \E i \in 1..Len(order) :
              /\ call.id = <<"hex", order[i]._id>>
              /\ order[i].items = <<>>
              /\ order[i].subtotal = 0
              /\ order[i].shipping = 500
              /\ order[i].total = 500
              /\ order[i].status = "pending"

\* C10 witness: an empty cart was checked out and its order persisted.
C10_Witness ==
    /\ call.op = "checkout"
    /\ call.items = <<>>
    /\ call.code = 200
    /\ Len(order) >= 1
    /\ order[Len(order)].items = <<>>

====
